---- MODULE Spec2Model ----
(***************************************************************************)
(* Model of ip_list_calculator.py: specifier parsing, range decomposition, *)
(* the exclusion driver of main() and the optional merge step.             *)
(*                                                                         *)
(* Addresses are integers of a scaled-down width (V4Bits / V6Bits instead  *)
(* of 32 / 128).  A network is a record [ver, addr, plen] as built by the  *)
(* ipaddress classes: addr is the network address, plen the prefix length. *)
(* A call that may raise returns a record [exc, val, log]: exc is the      *)
(* exception class ("none" when the call returns), val the returned list,  *)
(* log the number of logger.error() calls it made.                         *)
(***************************************************************************)
EXTENDS Integers, Sequences, FiniteSets, TLC

VARIABLES
    pc,            \* position of the modelled run
    lines,         \* TxtReader: the lines of the file being read
    pos,           \* TxtReader: number of lines consumed
    yielded,       \* TxtReader: per consumed line, the networks it yielded
    diag,          \* number of logger.error() diagnostics emitted
    add,           \* args.add
    sub,           \* args.sub
    sub_networks,  \* main: the filtered subtract list
    result,        \* main: result
    merge,         \* args.merge
    handed,        \* the list collapse_addresses was called with
    again,         \* collapse_addresses applied to its own output
    add_in,        \* args.add as the parser left it, before main() pops it
    err            \* exception that ended the run ("none" while running)

vars == <<pc, lines, pos, yielded, diag, add, sub, sub_networks, result, merge,
          handed, again, add_in, err>>

(***************************************************************************)
(* Bounds of the model.                                                    *)
(***************************************************************************)
V4Bits == 2
V6Bits == 0
MaxBatch == 3
MaxNets == 3

Versions == {4, 6}

\* _max_prefixlen of the address class
MaxPrefixLen(ver) == IF ver = 4 THEN V4Bits ELSE V6Bits

\* _ALL_ONES of the address class
AllOnes(ver) == 2^MaxPrefixLen(ver) - 1

Min(a, b) == IF a <= b THEN a ELSE b

Ok(v) == [exc |-> "none", val |-> v, log |-> 0]
Raise(e) == [exc |-> e, val |-> <<>>, log |-> 0]
Logged(v) == [exc |-> "none", val |-> v, log |-> 1]

(***************************************************************************)
(* Networks.                                                               *)
(***************************************************************************)
Net(ver, a, p) == [ver |-> ver, addr |-> a, plen |-> p]

\* int(hostmask) + 1: the number of addresses of the network
NumAddresses(n) == 2^(MaxPrefixLen(n.ver) - n.plen)

\* int(broadcast_address)
Broadcast(n) == n.addr + NumAddresses(n) - 1

\* every canonical network of one family
NetsOf(ver) ==
    { n \in [ver : {ver}, addr : 0..AllOnes(ver), plen : 0..MaxPrefixLen(ver)] :
        n.addr % NumAddresses(n) = 0 }

AllNets == NetsOf(4) \cup NetsOf(6)

\* the addresses a network covers, tagged with the family
AddrsOf(n) == { <<n.ver, a>> : a \in n.addr..Broadcast(n) }

\* the addresses a list of networks covers
UnionOf(s) == UNION { AddrsOf(s[i]) : i \in 1..Len(s) }

PairwiseDisjoint(s) ==
    \A i, j \in 1..Len(s) : i < j => AddrsOf(s[i]) \cap AddrsOf(s[j]) = {}

RECURSIVE Flatten(_)
Flatten(ss) == IF ss = <<>> THEN <<>> ELSE Head(ss) \o Flatten(Tail(ss))

\* sequences over S of length at most n
SeqsUpTo(S, n) == UNION { [1..k -> S] : k \in 0..n }

(***************************************************************************)
(* ipaddress.summarize_address_range and the integer helpers it uses.      *)
(***************************************************************************)
RECURSIVE BitLength(_)
BitLength(n) == IF n = 0 THEN 0 ELSE 1 + BitLength(n \div 2)

RECURSIVE TrailingZeros(_)
TrailingZeros(n) == IF n % 2 = 1 THEN 0 ELSE 1 + TrailingZeros(n \div 2)

\* _count_righthand_zero_bits(number, bits)
CountRighthandZeroBits(number, bits) ==
    IF number = 0 THEN bits ELSE Min(bits, TrailingZeros(number))

\* variant: the block is limited by the alignment of first_int only
SummarizeNBitsAlignedOnly(first_int, last_int, ip_bits) ==
    CountRighthandZeroBits(first_int, ip_bits)

\* variant: the size limit is taken from last - first instead of last - first + 1
SummarizeNBitsOffByOne(first_int, last_int, ip_bits) ==
    Min(CountRighthandZeroBits(first_int, ip_bits),
        IF last_int = first_int THEN 0 ELSE BitLength(last_int - first_int) - 1)

\* the number of low bits the block emitted at first_int spans
SummarizeNBits(first_int, last_int, ip_bits) ==
    Min(CountRighthandZeroBits(first_int, ip_bits),
        BitLength(last_int - first_int + 1) - 1)

RECURSIVE SummarizeLoop(_, _, _, _)
SummarizeLoop(ver, first_int, last_int, acc) ==
    IF first_int > last_int THEN acc
    ELSE LET nbits == SummarizeNBits(first_int, last_int, MaxPrefixLen(ver))
             net   == Net(ver, first_int, MaxPrefixLen(ver) - nbits)
             nxt   == first_int + 2^nbits
         IN  IF nxt - 1 = AllOnes(ver)
             THEN Append(acc, net)
             ELSE SummarizeLoop(ver, nxt, last_int, Append(acc, net))

\* list(summarize_address_range(first, last)) on two address objects
SummarizeAddressRange(first, last) ==
    IF first.ver # last.ver THEN Raise("TypeError")
    ELSE IF first.val > last.val THEN Raise("ValueError")
    ELSE Ok(SummarizeLoop(first.ver, first.val, last.val, <<>>))

(***************************************************************************)
(* Specifier strings.  A string is modelled by its tokens [first, sep,     *)
(* second]; a token is [kind, ver, val]:                                   *)
(*   "addr"    the text of a valid address of family ver, value val        *)
(*   "badaddr" text the address pattern matches that is no address         *)
(*             ("999.1.1.1")                                               *)
(*   "num"     a short run of decimal digits, value val                    *)
(*   "junk"    text no pattern matches at its start                        *)
(*   "none"    nothing                                                     *)
(***************************************************************************)
Tok(k, ver, v) == [kind |-> k, ver |-> ver, val |-> v]
NoTok == Tok("none", 0, 0)
BadAddrTok == Tok("badaddr", 4, 0)
JunkTok == Tok("junk", 0, 0)
AddrTok(ver, v) == Tok("addr", ver, v)
NumTok(v) == Tok("num", 0, v)

Specifier(f, sep, s) == [first |-> f, sep |-> sep, second |-> s]

\* the address pattern shared by the three regular expressions: four dotted
\* decimal groups, or colon-separated hex groups (a lone digit group included)
MatchesAddressPattern(t) == t.kind \in {"addr", "badaddr", "num"}

\* ipaddress.ip_address(text)
IpAddress(t) ==
    IF t.kind = "addr" THEN Ok(<<[ver |-> t.ver, val |-> t.val]>>)
    ELSE Raise("ValueError")

\* address + n / address - n: the class constructor rejects a value outside the family
AddressPlus(a, n) ==
    IF a.val + n < 0 \/ a.val + n > AllOnes(a.ver) THEN Raise("AddressValueError")
    ELSE Ok(<<[ver |-> a.ver, val |-> a.val + n]>>)

is_ip_range(value) ==
    /\ MatchesAddressPattern(value.first)
    /\ value.sep = "-"
    /\ MatchesAddressPattern(value.second)

get_from_ip_range(range) ==
    LET first == IpAddress(range.first)
        last  == IpAddress(range.second)
    IN  IF first.exc # "none" THEN first
        ELSE IF last.exc # "none" THEN last
        ELSE SummarizeAddressRange(first.val[1], last.val[1])

is_ip_count(value) ==
    /\ MatchesAddressPattern(value.first)
    /\ value.sep = "*"
    /\ value.second.kind = "num"

get_from_ip_count(count) ==
    LET first == IpAddress(count.first)
        n     == count.second.val
    IN  IF first.exc # "none" THEN first
        ELSE LET plus == AddressPlus(first.val[1], n)
             IN  IF plus.exc # "none" THEN plus
                 ELSE LET last == AddressPlus(plus.val[1], -1)
                      IN  IF last.exc # "none" THEN last
                          ELSE SummarizeAddressRange(first.val[1], last.val[1])

is_ip_network(value) == MatchesAddressPattern(value.first)

\* ipaddress.ip_interface(text).network: the address with its host bits masked off.
\* ip_interface() raises ValueError for every text it cannot read.
IpInterface(network) ==
    IF network.first.kind # "addr" THEN Raise("ValueError")
    ELSE LET ver == network.first.ver
             a   == network.first.val
         IN  IF network.sep = "" /\ network.second.kind = "none"
             THEN Ok(<<Net(ver, a, MaxPrefixLen(ver))>>)
             ELSE IF /\ network.sep = "/"
                     /\ network.second.kind = "num"
                     /\ network.second.val <= MaxPrefixLen(ver)
             THEN LET size == 2^(MaxPrefixLen(ver) - network.second.val)
                  IN  Ok(<<Net(ver, a - (a % size), network.second.val)>>)
             ELSE Raise("ValueError")

\* the exception classes the except clause of get_from_ip_network names
NetworkCaught == {"AddressValueError", "NetmaskValueError"}

get_from_ip_network(network) ==
    LET interface == IpInterface(network)
    IN  IF interface.exc \in NetworkCaught THEN Logged(<<>>)
        ELSE interface

get_from_string(value) ==
    IF is_ip_range(value) THEN get_from_ip_range(value)
    ELSE IF is_ip_count(value) THEN get_from_ip_count(value)
    ELSE IF is_ip_network(value) THEN get_from_ip_network(value)
    ELSE Logged(<<>>)

(***************************************************************************)
(* ipaddress network predicates and address_exclude.                       *)
(***************************************************************************)
\* address in network (_BaseNetwork.__contains__): always false across families
Contains(n, ver, a) == ver = n.ver /\ a - (a % NumAddresses(n)) = n.addr

\* self.overlaps(other)
Overlaps(self, other) ==
    \/ Contains(other, self.ver, self.addr)
    \/ Contains(other, self.ver, Broadcast(self))
    \/ Contains(self, other.ver, other.addr)
    \/ Contains(self, other.ver, Broadcast(other))

\* a.subnet_of(b), where both are of one family
IsSubnetOf(a, b) == b.addr <= a.addr /\ Broadcast(b) >= Broadcast(a)

\* a.subnet_of(b): raises TypeError when the families differ
SubnetOf(a, b) ==
    IF a.ver # b.ver THEN Raise("TypeError")
    ELSE Ok(<<IsSubnetOf(a, b)>>)

\* list(self.subnets()) of a network that is not a single address
Subnets(n) ==
    <<Net(n.ver, n.addr, n.plen + 1),
      Net(n.ver, n.addr + NumAddresses(n) \div 2, n.plen + 1)>>

RECURSIVE AddressExcludeLoop(_, _, _, _)
AddressExcludeLoop(s1, s2, other, acc) ==
    IF s1 = other THEN Ok(Append(acc, s2))
    ELSE IF s2 = other THEN Ok(Append(acc, s1))
    ELSE IF IsSubnetOf(other, s1)
         THEN AddressExcludeLoop(Subnets(s1)[1], Subnets(s1)[2], other, Append(acc, s2))
    ELSE IF IsSubnetOf(other, s2)
         THEN AddressExcludeLoop(Subnets(s2)[1], Subnets(s2)[2], other, Append(acc, s1))
    ELSE Raise("AssertionError")

\* list(self.address_exclude(other))
AddressExclude(self, other) ==
    IF self.ver # other.ver THEN Raise("TypeError")
    ELSE IF ~IsSubnetOf(other, self) THEN Raise("ValueError")
    ELSE IF other = self THEN Ok(<<>>)
    ELSE AddressExcludeLoop(Subnets(self)[1], Subnets(self)[2], other, <<>>)

\* variant: the subnet_of test is left out
ip_network_exclude_NoSubnetTest(network, exclude) ==
    IF network.ver # exclude.ver THEN Raise("TypeError")
    ELSE IF Overlaps(network, exclude) THEN AddressExclude(network, exclude)
    ELSE Ok(<<network>>)

ip_network_exclude(network, exclude) ==
    LET sn == SubnetOf(network, exclude)
    IN  IF sn.exc # "none" THEN sn
        ELSE IF sn.val[1] THEN Ok(<<>>)
        ELSE IF Overlaps(network, exclude) THEN AddressExclude(network, exclude)
        ELSE Ok(<<network>>)

(***************************************************************************)
(* The exclusion driver of main().                                         *)
(***************************************************************************)
\* the list comprehension of lines 476-477: for each sub_network, one copy per
\* add_network that overlaps it
RECURSIVE OverlapCopies(_, _)
OverlapCopies(sub_network, adds) ==
    IF adds = <<>> THEN <<>>
    ELSE (IF Overlaps(Head(adds), sub_network) THEN <<sub_network>> ELSE <<>>)
         \o OverlapCopies(sub_network, Tail(adds))

\* variant: a sub_network is kept only when it overlaps the first add network
RECURSIVE FilterSubNetworksFirstAddOnly(_, _)
FilterSubNetworksFirstAddOnly(subs, adds) ==
    IF subs = <<>> \/ adds = <<>> THEN <<>>
    ELSE OverlapCopies(Head(subs), <<Head(adds)>>)
         \o FilterSubNetworksFirstAddOnly(Tail(subs), adds)

RECURSIVE FilterSubNetworks(_, _)
FilterSubNetworks(subs, adds) ==
    IF subs = <<>> THEN <<>>
    ELSE OverlapCopies(Head(subs), adds) \o FilterSubNetworks(Tail(subs), adds)

\* variant: a network that was split stays in the list beside its pieces
RECURSIVE ExcludeFromEachKeeping(_, _)
ExcludeFromEachKeeping(add_networks, sub_network) ==
    IF add_networks = <<>> THEN Ok(<<>>)
    ELSE LET h == ip_network_exclude(Head(add_networks), sub_network)
         IN  IF h.exc # "none" THEN h
             ELSE LET t == ExcludeFromEachKeeping(Tail(add_networks), sub_network)
                      kept == IF h.val = <<>> THEN <<>> ELSE <<Head(add_networks)>>
                  IN  IF t.exc # "none" THEN t
                      ELSE Ok((IF h.val = kept THEN kept ELSE h.val \o kept) \o t.val)

\* lines 486-489: one sub_network taken out of every network of add_networks
RECURSIVE ExcludeFromEach(_, _)
ExcludeFromEach(add_networks, sub_network) ==
    IF add_networks = <<>> THEN Ok(<<>>)
    ELSE LET h == ip_network_exclude(Head(add_networks), sub_network)
         IN  IF h.exc # "none" THEN h
             ELSE LET t == ExcludeFromEach(Tail(add_networks), sub_network)
                  IN  IF t.exc # "none" THEN t ELSE Ok(h.val \o t.val)

\* variant: the loop ends after the first sub_network
ExcludeSubNetworksFirstOnly(add_networks, subs) ==
    IF subs = <<>> \/ add_networks = <<>> THEN Ok(add_networks)
    ELSE ExcludeFromEach(add_networks, Head(subs))

\* lines 483-489: the for loop over sub_networks for one popped add network
RECURSIVE ExcludeSubNetworks(_, _)
ExcludeSubNetworks(add_networks, subs) ==
    IF subs = <<>> \/ add_networks = <<>> THEN Ok(add_networks)
    ELSE LET new_add_networks == ExcludeFromEach(add_networks, Head(subs))
         IN  IF new_add_networks.exc # "none" THEN new_add_networks
             ELSE ExcludeSubNetworks(new_add_networks.val, Tail(subs))

(***************************************************************************)
(* ipaddress.collapse_addresses.                                           *)
(***************************************************************************)
\* net.supernet()
Supernet(n) ==
    IF n.plen = 0 THEN n
    ELSE Net(n.ver, n.addr - (n.addr % (2 * NumAddresses(n))), n.plen - 1)

\* the first loop of collapse_addresses: single addresses go to ips, the other
\* networks to nets; a family change within either list raises TypeError
RECURSIVE SplitAddresses(_, _, _)
SplitAddresses(addresses, ips, nets) ==
    IF addresses = <<>> THEN [exc |-> "none", ips |-> ips, nets |-> nets]
    ELSE LET ip == Head(addresses)
         IN  IF ip.plen = MaxPrefixLen(ip.ver)
             THEN IF ips # <<>> /\ ips[Len(ips)].ver # ip.ver
                  THEN [exc |-> "TypeError", ips |-> <<>>, nets |-> <<>>]
                  ELSE SplitAddresses(Tail(addresses),
                                      Append(ips, [ver |-> ip.ver, val |-> ip.addr]), nets)
             ELSE IF nets # <<>> /\ nets[Len(nets)].ver # ip.ver
                  THEN [exc |-> "TypeError", ips |-> <<>>, nets |-> <<>>]
                  ELSE SplitAddresses(Tail(addresses), ips, Append(nets, ip))

\* _find_address_range over sorted(set(ips)) followed by summarize_address_range of
\* each run; vals is the set of address values, all of family ver
RECURSIVE SummarizeRuns(_, _, _, _)
SummarizeRuns(ver, vals, first, last) ==
    IF last + 1 \in vals THEN SummarizeRuns(ver, vals, first, last + 1)
    ELSE LET run  == SummarizeLoop(ver, first, last, <<>>)
             rest == { v \in vals : v > last }
         IN  IF rest = {} THEN run
             ELSE LET nxt == CHOOSE v \in rest : \A w \in rest : v <= w
                  IN  run \o SummarizeRuns(ver, vals, nxt, nxt)

SummarizeIps(ips) ==
    IF ips = <<>> THEN <<>>
    ELSE LET vals == { ips[i].val : i \in 1..Len(ips) }
             low  == CHOOSE v \in vals : \A w \in vals : v <= w
         IN  SummarizeRuns(ips[1].ver, vals, low, low)

\* the dict subnets of _collapse_addresses_internal is a function from supernets
\* to networks; to_merge is used as a stack
RECURSIVE MergeLoop(_, _)
MergeLoop(to_merge, subnets) ==
    IF to_merge = <<>> THEN subnets
    ELSE LET net      == to_merge[Len(to_merge)]
             rest     == SubSeq(to_merge, 1, Len(to_merge) - 1)
             supernet == Supernet(net)
         IN  IF supernet \notin DOMAIN subnets
             THEN MergeLoop(rest, [k \in DOMAIN subnets \cup {supernet} |->
                                      IF k = supernet THEN net ELSE subnets[k]])
             ELSE IF subnets[supernet] # net
             THEN MergeLoop(Append(rest, supernet),
                            [k \in DOMAIN subnets \ {supernet} |-> subnets[k]])
             ELSE MergeLoop(rest, subnets)

\* _BaseNetwork.__lt__ within one family: by network address, then by netmask
NetLess(a, b) == a.addr < b.addr \/ (a.addr = b.addr /\ a.plen < b.plen)

RECURSIVE SortNets(_)
SortNets(S) ==
    IF S = {} THEN <<>>
    ELSE LET m == CHOOSE x \in S : \A y \in S \ {x} : NetLess(x, y)
         IN  <<m>> \o SortNets(S \ {m})

\* the second loop of _collapse_addresses_internal: skip the subsumed networks
RECURSIVE SkipSubsumed(_, _, _)
SkipSubsumed(sorted, last, acc) ==
    IF sorted = <<>> THEN acc
    ELSE LET net == Head(sorted)
         IN  IF last # <<>> /\ Broadcast(last[1]) >= Broadcast(net)
             THEN SkipSubsumed(Tail(sorted), last, acc)
             ELSE SkipSubsumed(Tail(sorted), <<net>>, Append(acc, net))

\* sorted(subnets.values()) raises TypeError when it compares networks of two families
CollapseAddressesInternal(addresses) ==
    LET subnets == MergeLoop(addresses, [k \in {} |-> k])
        values  == { subnets[k] : k \in DOMAIN subnets }
    IN  IF \E x, y \in values : x.ver # y.ver THEN Raise("TypeError")
        ELSE Ok(SkipSubsumed(SortNets(values), <<>>, <<>>))

\* variant: the summarized single addresses are not merged with the other networks
CollapseAddressesNoJoin(addresses) ==
    LET split == SplitAddresses(addresses, <<>>, <<>>)
        nets  == CollapseAddressesInternal(split.nets)
    IN  IF split.exc # "none" THEN Raise(split.exc)
        ELSE IF nets.exc # "none" THEN nets
        ELSE IF split.ips # <<>> /\ nets.val # <<>> /\ split.ips[1].ver # nets.val[1].ver
        THEN Raise("TypeError")
        ELSE Ok(SummarizeIps(split.ips) \o nets.val)

\* list(collapse_addresses(addresses))
CollapseAddresses(addresses) ==
    LET split == SplitAddresses(addresses, <<>>, <<>>)
    IN  IF split.exc # "none" THEN Raise(split.exc)
        ELSE CollapseAddressesInternal(SummarizeIps(split.ips) \o split.nets)


(***************************************************************************)
(* Inputs.                                                                 *)
(***************************************************************************)
AddrToks == UNION { { AddrTok(ver, v) : v \in 0..AllOnes(ver) } : ver \in Versions }

AddrLikeToks == AddrToks \cup {BadAddrTok}

Specifiers ==
    { Specifier(f, "-", s) : f \in AddrLikeToks, s \in AddrLikeToks }
    \cup { Specifier(f, "*", NumTok(n)) : f \in AddrLikeToks, n \in 0..(AllOnes(4) + 2) }
    \cup { Specifier(f, "/", NumTok(p)) : f \in AddrLikeToks, p \in 0..(V4Bits + 1) }
    \cup { Specifier(f, "", NoTok) : f \in AddrLikeToks \cup {JunkTok} }

\* a few specifiers of each form, valid and invalid, for files of several lines
SampleSpecifiers ==
    { Specifier(AddrTok(4, 1), "-", AddrTok(4, 2)),
      Specifier(AddrTok(4, 2), "-", AddrTok(4, 1)),
      Specifier(AddrTok(4, 0), "*", NumTok(2)),
      Specifier(AddrTok(4, 2), "/", NumTok(1)),
      Specifier(BadAddrTok, "", NoTok),
      Specifier(JunkTok, "", NoTok) }

Batches == { <<s>> : s \in Specifiers } \cup SeqsUpTo(SampleSpecifiers, MaxBatch)

\* the add and subtract lists main() may be given
NetLists == SeqsUpTo(AllNets, MaxNets)

(***************************************************************************)
(* TxtReader.__iter__ consumed by args.add.extend(list(reader)).           *)
(***************************************************************************)
InitParse ==
    /\ pc = "read"
    /\ lines \in Batches
    /\ pos = 0 /\ yielded = <<>> /\ diag = 0
    /\ add = <<>> /\ sub = <<>> /\ sub_networks = <<>> /\ result = <<>>
    /\ merge = FALSE /\ handed = <<>> /\ again = <<>> /\ add_in = <<>>
    /\ err = "none"

\* one iteration of the for loop over the lines of the file
ReadLine ==
    /\ pc = "read"
    /\ pos < Len(lines)
    /\ LET networks == get_from_string(lines[pos + 1])
       IN  /\ pos' = pos + 1
           /\ diag' = diag + networks.log
           /\ IF networks.exc = "none"
              THEN /\ yielded' = Append(yielded, networks.val)
                   /\ UNCHANGED <<pc, err>>
              ELSE /\ err' = networks.exc
                   /\ pc' = "crashed"
                   /\ UNCHANGED yielded
    /\ UNCHANGED <<lines, add, sub, sub_networks, result, merge, handed, again, add_in>>

\* the file is exhausted: list(reader) returns and is appended to args.add
EndOfFile ==
    /\ pc = "read"
    /\ pos = Len(lines)
    /\ pc' = "loaded"
    /\ add' = add \o Flatten(yielded)
    /\ UNCHANGED <<lines, pos, yielded, diag, sub, sub_networks, result, merge,
                   handed, again, add_in, err>>

NextParse == ReadLine \/ EndOfFile

SpecParse == InitParse /\ [][NextParse]_vars

(***************************************************************************)
(* ip_network_exclude applied to one pair of networks of one family.       *)
(***************************************************************************)
InitExcludeOne ==
    /\ pc = "call"
    /\ \E network, exclude \in AllNets : add = <<network>> /\ sub = <<exclude>>
    /\ lines = <<>> /\ pos = 0 /\ yielded = <<>> /\ diag = 0
    /\ sub_networks = <<>> /\ result = <<>>
    /\ merge = FALSE /\ handed = <<>> /\ again = <<>> /\ add_in = <<>>
    /\ err = "none"

ExcludeOne ==
    /\ pc = "call"
    /\ LET r == ip_network_exclude(add[1], sub[1])
       IN  /\ result' = r.val
           /\ err' = r.exc
           /\ pc' = IF r.exc = "none" THEN "returned" ELSE "crashed"
    /\ UNCHANGED <<lines, pos, yielded, diag, add, sub, sub_networks, merge,
                   handed, again, add_in>>

NextExcludeOne == ExcludeOne

SpecExcludeOne == InitExcludeOne /\ [][NextExcludeOne]_vars

(***************************************************************************)
(* main(): lines 474-493.                                                  *)
(***************************************************************************)
Init ==
    /\ pc = "main"
    /\ \E na \in 0..MaxNets : \E ns \in 0..(MaxNets - na) :
          add \in [1..na -> AllNets] /\ sub \in [1..ns -> AllNets]
    /\ add_in = add
    /\ lines = <<>> /\ pos = 0 /\ yielded = <<>> /\ diag = 0
    /\ sub_networks = <<>> /\ result = <<>>
    /\ merge = FALSE /\ handed = <<>> /\ again = <<>>
    /\ err = "none"

\* lines 474-479: filter the subtract list; without any overlap the result is args.add
Filter ==
    /\ pc = "main"
    /\ sub_networks' = FilterSubNetworks(sub, add)
    /\ IF sub_networks' = <<>>
       THEN result' = add /\ pc' = "merge"
       ELSE result' = <<>> /\ pc' = "loop"
    /\ UNCHANGED <<lines, pos, yielded, diag, add, sub, merge, handed, again, add_in, err>>

\* lines 481-491: one iteration of the while loop
ExcludeNext ==
    /\ pc = "loop"
    /\ Len(add) > 0
    /\ LET add_networks == ExcludeSubNetworks(<<add[Len(add)]>>, sub_networks)
       IN  /\ add' = SubSeq(add, 1, Len(add) - 1)
           /\ IF add_networks.exc = "none"
              THEN /\ result' = result \o add_networks.val
                   /\ pc' = IF Len(add) = 1 THEN "merge" ELSE "loop"
                   /\ UNCHANGED err
              ELSE /\ err' = add_networks.exc
                   /\ pc' = "crashed"
                   /\ UNCHANGED result
    /\ UNCHANGED <<lines, pos, yielded, diag, sub, sub_networks, merge, handed, again, add_in>>

\* lines 492-493: the optional merge
Merge ==
    /\ pc = "merge"
    /\ \E m \in BOOLEAN :
          /\ merge' = m
          /\ IF m
             THEN LET collapsed == CollapseAddresses(result)
                  IN  /\ handed' = result
                      /\ IF collapsed.exc = "none"
                         THEN result' = collapsed.val /\ pc' = "done" /\ UNCHANGED err
                         ELSE err' = collapsed.exc /\ pc' = "crashed" /\ UNCHANGED result
             ELSE pc' = "done" /\ UNCHANGED <<result, handed, err>>
    /\ UNCHANGED <<lines, pos, yielded, diag, add, sub, sub_networks, again, add_in>>

Next == Filter \/ ExcludeNext \/ Merge

Spec == Init /\ [][Next]_vars

(***************************************************************************)
(* collapse_addresses applied to a list, and to its own output.            *)
(***************************************************************************)
InitCollapse ==
    /\ pc = "call"
    /\ handed \in NetLists
    /\ lines = <<>> /\ pos = 0 /\ yielded = <<>> /\ diag = 0
    /\ add = <<>> /\ sub = <<>> /\ sub_networks = <<>> /\ result = <<>>
    /\ merge = TRUE /\ again = <<>> /\ add_in = <<>>
    /\ err = "none"

Collapse ==
    /\ pc = "call"
    /\ LET collapsed == CollapseAddresses(handed)
       IN  /\ result' = collapsed.val
           /\ err' = collapsed.exc
           /\ pc' = IF collapsed.exc = "none" THEN "collapsed" ELSE "crashed"
    /\ UNCHANGED <<lines, pos, yielded, diag, add, sub, sub_networks, merge,
                   handed, again, add_in>>

CollapseAgain ==
    /\ pc = "collapsed"
    /\ LET collapsed == CollapseAddresses(result)
       IN  /\ again' = collapsed.val
           /\ err' = collapsed.exc
           /\ pc' = IF collapsed.exc = "none" THEN "recollapsed" ELSE "crashed"
    /\ UNCHANGED <<lines, pos, yielded, diag, add, sub, sub_networks, result, merge,
                   handed, add_in>>

NextCollapse == Collapse \/ CollapseAgain

SpecCollapse == InitCollapse /\ [][NextCollapse]_vars


(***************************************************************************)
(* Vocabulary of the properties.                                           *)
(***************************************************************************)
\* the addresses first..last of one family
RangeAddrs(ver, first, last) == { <<ver, a>> : a \in first..last }

SameFamily(s) == \A i, j \in 1..Len(s) : s[i].ver = s[j].ver

\* the networks of one family, in order
RECURSIVE SelectVer(_, _)
SelectVer(s, ver) ==
    IF s = <<>> THEN <<>>
    ELSE (IF Head(s).ver = ver THEN <<Head(s)>> ELSE <<>>) \o SelectVer(Tail(s), ver)

\* a is a sub-block of b (b = a included)
SubBlock(a, b) == AddrsOf(a) \subseteq AddrsOf(b)

\* two networks of one size that are the two halves of one parent
Siblings(a, b) == a # b /\ a.ver = b.ver /\ a.plen = b.plen /\ a.plen > 0 /\ Supernet(a) = Supernet(b)

\* a range specifier with two addresses of one family, first <= last
IsProperRange(s) ==
    /\ s.sep = "-" /\ s.first.kind = "addr" /\ s.second.kind = "addr"
    /\ s.first.ver = s.second.ver /\ s.first.val <= s.second.val

\* a count specifier A*N, N >= 1, whose last address A + N - 1 is an address of the family
IsProperCount(s) ==
    /\ s.sep = "*" /\ s.first.kind = "addr" /\ s.second.kind = "num"
    /\ s.second.val >= 1
    /\ s.first.val + s.second.val - 1 <= AllOnes(s.first.ver)

IsProperNetwork(s) ==
    /\ s.first.kind = "addr"
    /\ \/ s.sep = "" /\ s.second.kind = "none"
       \/ s.sep = "/" /\ s.second.kind = "num" /\ s.second.val <= MaxPrefixLen(s.first.ver)

IsProperSpecifier(s) == IsProperRange(s) \/ IsProperCount(s) \/ IsProperNetwork(s)

\* S can be covered exactly by at most k networks, each inside the range R:
\* the lowest uncovered address has to lie in one of them
RECURSIVE CanCover(_, _, _)
CanCover(S, R, k) ==
    IF S = {} THEN TRUE
    ELSE IF k = 0 THEN FALSE
    ELSE LET low == CHOOSE x \in S : \A y \in S : x[2] <= y[2]
         IN  \E n \in NetsOf(low[1]) :
                /\ low \in AddrsOf(n)
                /\ AddrsOf(n) \subseteq R
                /\ CanCover(S \ AddrsOf(n), R, k - 1)

(***************************************************************************)
(* Claims.                                                                 *)
(***************************************************************************)

\* C1: for add and subtract lists of one family the exclusion driver does not fail
\* and the addresses its result covers are those of the add list minus those of
\* the subtract list.
C1_ExclusionIsSetDifference ==
    SameFamily(add_in \o sub) =>
        /\ pc # "crashed"
        /\ pc = "loop" => add # <<>>
        /\ pc \in {"merge", "done"} => UnionOf(result) = UnionOf(add_in) \ UnionOf(sub)

C1_Witness ==
    /\ pc = "merge"
    /\ SameFamily(add_in \o sub)
    /\ Len(sub) = 2 /\ Len(sub_networks) = 2 /\ sub[1] # sub[2]
    /\ Len(result) >= 2

C3_FamiliesNeverInteract ==
    /\ ~(pc = "crashed" /\ ~merge)
    /\ pc = "merge" =>
          \A ver \in Versions :
              UnionOf(SelectVer(result, ver)) =
                  UnionOf(SelectVer(add_in, ver)) \ UnionOf(SelectVer(sub, ver))

\* C4: a specifier that cannot be parsed is reported and contributes no network, and
\* the lines before and after it are still processed: no unparsable line aborts the
\* reading, each one consumed has an empty list of networks, and there is one
\* diagnostic per unparsable line consumed.
C4_ParseFailureNonFatal ==
    /\ pc = "crashed" => IsProperSpecifier(lines[pos])
    /\ \A i \in 1..Len(yielded) : ~IsProperSpecifier(lines[i]) => yielded[i] = <<>>
    /\ diag = Cardinality({ i \in 1..pos : ~IsProperSpecifier(lines[i]) })

\* C5: the count form A*N with N >= 1 and A + N - 1 an address of the family parses
\* and yields the networks of the range A .. A + N - 1.
C5_CountEqualsRange ==
    \A i \in 1..pos :
        IsProperCount(lines[i]) =>
            /\ i <= Len(yielded)
            /\ LET a == lines[i].first
                   n == lines[i].second.val
               IN  yielded[i] = SummarizeLoop(a.ver, a.val, a.val + n - 1, <<>>)

\* C6: for a range A-B of one family with A <= B the networks produced are canonical
\* CIDR blocks, pairwise disjoint, and cover exactly the addresses A..B.
C6_DecompositionCoversExactly ==
    \A i \in 1..pos :
        IsProperRange(lines[i]) =>
            /\ i <= Len(yielded)
            /\ \A k \in 1..Len(yielded[i]) : yielded[i][k] \in AllNets
            /\ PairwiseDisjoint(yielded[i])
            /\ UnionOf(yielded[i]) =
                  RangeAddrs(lines[i].first.ver, lines[i].first.val, lines[i].second.val)

C6_Witness ==
    /\ pos = 1 /\ Len(yielded) = 1
    /\ IsProperRange(lines[1])
    /\ lines[1].first.val > 0
    /\ lines[1].second.val = AllOnes(lines[1].first.ver)
    /\ Len(yielded[1]) >= 2

\* C7: for a range A-B with A <= B every network produced is maximal (its supernet is
\* not inside A..B), no two of them are siblings, no exact CIDR cover of A..B has
\* fewer networks, and the networks come in strictly ascending address order.
C7_DecompositionMinimalOrdered ==
    \A i \in 1..pos :
        (IsProperRange(lines[i]) /\ i <= Len(yielded)) =>
            LET out == yielded[i]
                R   == RangeAddrs(lines[i].first.ver, lines[i].first.val, lines[i].second.val)
            IN  /\ \A k \in 1..Len(out) :
                      out[k].plen > 0 => ~(AddrsOf(Supernet(out[k])) \subseteq R)
                /\ \A k, l \in 1..Len(out) : ~Siblings(out[k], out[l])
                /\ Len(out) >= 1
                /\ ~CanCover(R, R, Len(out) - 1)
                /\ \A k \in 1..(Len(out) - 1) : out[k].addr < out[k + 1].addr

C7_Witness ==
    /\ pos = 1 /\ Len(yielded) = 1
    /\ IsProperRange(lines[1])
    /\ lines[1].first.val = 1
    /\ lines[1].second.val = AllOnes(lines[1].first.ver) - 1
    /\ Len(yielded[1]) >= 2

\* C8: the merge step succeeds on every list handed to it (mixed families included);
\* its output covers the same addresses with no more networks, none of them inside
\* another and no two of them siblings.
C8_CollapseMinimalCover ==
    (merge /\ pc \in {"done", "crashed"}) =>
        /\ pc = "done"
        /\ UnionOf(result) = UnionOf(handed)
        /\ Len(result) <= Len(handed)
        /\ \A i, j \in 1..Len(result) :
              i # j => ~SubBlock(result[i], result[j]) /\ ~Siblings(result[i], result[j])

\* C9: collapsing the output of a collapse returns that output again, network by
\* network and in the same order (and so covers the same addresses).
C9_CollapseIdempotent ==
    /\ pc = "recollapsed" => again = result /\ UnionOf(again) = UnionOf(result)
    /\ pc = "crashed" => result = <<>>

C9_Witness ==
    /\ pc = "recollapsed"
    /\ Len(handed) = 3
    /\ Len(result) = 1
    /\ result[1] \notin { handed[i] : i \in 1..Len(handed) }

\* C10: for two networks of one family with prefix lengths p and q,
\* ip_network_exclude returns nothing when the network lies inside the excluded one,
\* the network itself when the two do not overlap, and otherwise (the excluded one
\* is a strict sub-block) q - p networks, one of each prefix length p+1..q, pairwise
\* disjoint, none overlapping the excluded one, covering the network minus the
\* excluded one.
C10_ExcludeOneThreeOutcomes ==
    (pc # "call" /\ add[1].ver = sub[1].ver) =>
        LET block == add[1]
            rem   == sub[1]
        IN  /\ pc = "returned"
            /\ IF AddrsOf(block) \subseteq AddrsOf(rem) THEN result = <<>>
               ELSE IF AddrsOf(block) \cap AddrsOf(rem) = {} THEN result = <<block>>
               ELSE /\ AddrsOf(rem) \subseteq AddrsOf(block)
                    /\ rem.plen > block.plen
                    /\ Len(result) = rem.plen - block.plen
                    /\ { result[k].plen : k \in 1..Len(result) } = (block.plen + 1)..rem.plen
                    /\ PairwiseDisjoint(result)
                    /\ UnionOf(result) \cap AddrsOf(rem) = {}
                    /\ UnionOf(result) = AddrsOf(block) \ AddrsOf(rem)

C10_Witness ==
    /\ pc = "returned"
    /\ add[1].ver = sub[1].ver
    /\ sub[1].plen = add[1].plen + 2
    /\ Len(result) = 2

\* the number of times network n occurs in the list s
CountOf(s, n) == Cardinality({ i \in 1..Len(s) : s[i] = n })

\* two lists hold the same networks the same number of times
SameMultiset(s, t) == \A n \in AllNets : CountOf(s, n) = CountOf(t, n)

\* one network with every network of subs taken out of it, each once, in order
RECURSIVE ApplyEachOnce(_, _)
ApplyEachOnce(pieces, subs) ==
    IF subs = <<>> THEN pieces
    ELSE ApplyEachOnce(
            Flatten([k \in 1..Len(pieces) |-> ip_network_exclude(pieces[k], Head(subs)).val]),
            Tail(subs))

\* every network of subs applied, once each, to every network of adds
UnfilteredExclusion(adds, subs) ==
    Flatten([k \in 1..Len(adds) |-> ApplyEachOnce(<<adds[k]>>, subs)])

\* C11: for add and subtract lists of one family, the driver, which keeps only the
\* sub networks that overlap some add network (one copy per overlapping add network)
\* and returns the add list itself when none is kept, produces the same networks, as
\* a multiset, as taking every sub network once out of every add network.
C11_FilteringKeepsResult ==
    (pc = "merge" /\ SameFamily(add_in \o sub)) =>
        SameMultiset(result, UnfilteredExclusion(add_in, sub))

C11_Witness ==
    /\ pc = "merge"
    /\ SameFamily(add_in \o sub)
    /\ Len(add_in) = 1 /\ Len(sub) = 2
    /\ Len(sub_networks) = 1
    /\ ~Overlaps(add_in[1], sub[1])
    /\ result # <<>> /\ result # add_in

\* the filter keeps one copy of a sub network per add network it overlaps
C11_WitnessCopies ==
    /\ pc = "merge"
    /\ SameFamily(add_in \o sub)
    /\ Len(add_in) = 2 /\ Len(sub) = 1
    /\ Len(sub_networks) = 2
    /\ result # <<>>


====
